---- MODULE Spec2Model ----
(***************************************************************************)
(* Model of the resource lock manager: LockEntry (a half-open interval),   *)
(* Resource (a sorted array of lock entries with binary-search queries)    *)
(* and ResourceLockManager (a map from resource id to Resource, with bulk  *)
(* loading of records).                                                    *)
(*                                                                         *)
(* Representation of JavaScript values:                                    *)
(*  - a number v is the integer 2*v ("half units"), so that the fraction   *)
(*    .5 is representable and Number.isInteger(v) is v % 2 = 0; order and  *)
(*    equality of numbers are order and equality of their doubles;         *)
(*  - a string is the sequence of its characters;                          *)
(*  - a JSON value is a record tagged with its typeof.                     *)
(***************************************************************************)
EXTENDS Integers, Sequences, FiniteSets, Bags, TLC

VARIABLES
    resource,    \* a Resource used on its own: its locksEntries
    shuffled,    \* a second Resource that receives the locks of resource in another order
    pending,     \* the locks added to resource and not yet to shuffled
    resources,   \* the Map of a ResourceLockManager: resource id -> locksEntries
    loaded,      \* whether parseJson has been called on the manager
    last         \* the most recent call, its arguments and its outcome

vars == <<resource, shuffled, pending, resources, loaded, last>>

----------------------------------------------------------------------------
(* Bounds of the exploration *)

\* largest time value (in whole units) used as an interval bound or query time
MaxT == 3
\* largest number of lock entries held by a Resource used on its own
MaxLocks == 3
\* largest total number of lock entries added to a manager by addLockToResource
MaxManagerLocks == 2
\* largest number of records in a loaded file
MaxBatch == 3
\* largest number of lock entries added to a manager before a file is loaded
MaxPre == 1

----------------------------------------------------------------------------
(* JavaScript values *)

Num(v) == 2 * v

IsInteger(x) == x % 2 = 0

\* a number that is not an integer: 1.5
OneAndAHalf == 3

NumInputs == {Num(v) : v \in -1..MaxT} \cup {OneAndAHalf}

\* the non-negative integer times
Times == {Num(v) : v \in 0..MaxT}

\* the (startTime, endTime) pairs that new LockEntry accepts
ValidIntervals == {p \in Times \X Times : p[1] < p[2]}

\* pairs that new LockEntry rejects: negative, inverted, empty, not integer
InvalidIntervals ==
    {<<Num(-1), Num(1)>>, <<Num(1), Num(-1)>>, <<Num(2), Num(1)>>, <<Num(1), Num(1)>>,
     <<OneAndAHalf, Num(2)>>, <<Num(0), OneAndAHalf>>}

IntervalInputs == ValidIntervals \cup InvalidIntervals

R1 == <<"R", "1">>
R2 == <<"R", "2">>
EmptyId == <<>>
BlankId == <<" ">>

IdInputs == {R1, R2, EmptyId, BlankId}

Null == [type |-> "null"]

JsNumber(x) == [type |-> "number", num |-> x, str |-> <<>>]
JsString(s) == [type |-> "string", num |-> 0, str |-> s]
JsArray(items) == [type |-> "array", items |-> items]

\* a record [resourceId, startTime, endTime] of a lock data file
Record(resourceId, startTime, endTime) ==
    <<JsString(resourceId), JsNumber(startTime), JsNumber(endTime)>>

NotANumber == JsString(<<"x">>)

\* records that name a resource and an interval new LockEntry accepts
ValidRecords ==
    {Record(R1, Num(1), Num(2)), Record(R1, Num(0), Num(3)), Record(R2, Num(0), Num(2))}

\* records with a start or end that is not a number, or with start >= end
UnorderedRecords ==
    {<<JsString(R2), NotANumber, JsNumber(Num(3))>>,
     <<JsString(R2), JsNumber(Num(2)), NotANumber>>,
     Record(R1, Num(2), Num(1)),
     Record(R1, Num(1), Num(1))}

\* records with a negative or fractional bound, or an empty or blank id
RejectedRecords ==
    {Record(R1, Num(-1), Num(2)), Record(R1, Num(0), OneAndAHalf),
     Record(EmptyId, Num(0), Num(2)), Record(BlankId, Num(0), Num(2))}

\* records of the wrong length or with an id that is not a string
MisshapenRecords ==
    {<<JsString(R1), JsNumber(Num(0))>>,
     <<JsNumber(Num(1)), JsNumber(Num(0)), JsNumber(Num(2))>>}

RecordInputs == ValidRecords \cup UnorderedRecords \cup RejectedRecords \cup MisshapenRecords

RECURSIVE SeqsUpTo(_, _)
SeqsUpTo(S, n) ==
    IF n = 0 THEN {<<>>}
    ELSE LET shorter == SeqsUpTo(S, n - 1)
         IN  shorter \cup {Append(q, x) : q \in {r \in shorter : Len(r) = n - 1}, x \in S}

\* what readJsonFile returns: null, or the array of records of the file
FileInputs == {Null} \cup {JsArray(items) : items \in SeqsUpTo(RecordInputs, MaxBatch)}

\* a file at jsonFilePath: absent, not the text of a JSON value, or the text
\* of the JSON value data
MissingFile == [kind |-> "missing", data |-> Null]
MalformedFile == [kind |-> "malformed", data |-> Null]
JsonFile(data) == [kind |-> "json", data |-> data]

FileStates == {MissingFile, MalformedFile} \cup {JsonFile(data) : data \in FileInputs}

\* the intervals and the files given to a manager that is also queried
ManagerIntervals == {<<Num(0), Num(2)>>, <<Num(1), Num(3)>>} \cup InvalidIntervals

ManagerRecords ==
    {Record(R1, Num(0), Num(2)), Record(R2, Num(1), Num(3)),
     Record(R1, Num(2), Num(1)), Record(BlankId, Num(0), Num(2)),
     Record(R2, Num(-1), Num(1))}

ManagerFiles ==
    {MissingFile, MalformedFile}
        \cup {JsonFile(JsArray(<<>>))}
        \cup {JsonFile(JsArray(<<a>>)) : a \in ManagerRecords}
        \cup {JsonFile(JsArray(<<a, b>>)) : a \in ManagerRecords, b \in ManagerRecords}

\* the locks put into a manager before a file is loaded
PreLocks == {<<R1, Num(0), Num(2)>>, <<R2, Num(1), Num(2)>>}

RECURSIVE trimStart(_)
trimStart(s) ==
    IF s # <<>> /\ Head(s) = " " THEN trimStart(Tail(s)) ELSE s

RECURSIVE trimEnd(_)
trimEnd(s) ==
    IF s # <<>> /\ s[Len(s)] = " " THEN trimEnd(SubSeq(s, 1, Len(s) - 1)) ELSE s

trim(s) == trimEnd(trimStart(s))

----------------------------------------------------------------------------
(* Outcomes of a call: a returned value or a thrown Error *)

NoError == "none"
ErrResourceId == "Resource ID must be a non-empty string."
ErrTime == "Time must be a non-negative integer."
ErrNegative == "Time values cannot be negative."
ErrOrder == "startTime must be less endTime."
ErrIntegers == "Time values must be integers."

Return(v) == [err |-> NoError, ret |-> v]
Throw(e) == [err |-> e, ret |-> Null]

----------------------------------------------------------------------------
(* LockEntry *)

\* the check of the signs left out
LockEntryErrorUnsigned(startTime, endTime) ==
    IF startTime >= endTime THEN ErrOrder
    ELSE IF ~IsInteger(startTime) \/ ~IsInteger(endTime) THEN ErrIntegers
    ELSE NoError

\* the Error thrown by new LockEntry(startTime, endTime), or NoError
LockEntryError(startTime, endTime) ==
    IF startTime < 0 \/ endTime < 0 THEN ErrNegative
    ELSE IF startTime >= endTime THEN ErrOrder
    ELSE IF ~IsInteger(startTime) \/ ~IsInteger(endTime) THEN ErrIntegers
    ELSE NoError

LockEntry(startTime, endTime) == [startTime |-> startTime, endTime |-> endTime]

\* only the first of the two comparisons
overlapsWithOneSided(this, other) ==
    this.startTime < other.endTime

\* the end of an interval taken as part of it
overlapsWithClosed(this, other) ==
    this.startTime <= other.endTime /\ other.startTime <= this.endTime

overlapsWith(this, other) ==
    this.startTime < other.endTime /\ other.startTime < this.endTime

\* the comparison with the tie on startTime left out
isLessThanStartOnly(this, other) == this.startTime < other.startTime

isLessThan(this, other) ==
    IF this.startTime = other.startTime
    THEN this.endTime < other.endTime
    ELSE this.startTime < other.startTime

----------------------------------------------------------------------------
(* Resource: locksEntries is a sequence; the code's 0-based index i is     *)
(* locksEntries[i + 1] here.                                               *)

\* the Error thrown by new Resource(resourceId), or NoError
\* a constructor that accepts every id
ResourceErrorNone(resourceId) == NoError

ResourceError(resourceId) ==
    IF trim(resourceId) = <<>> THEN ErrResourceId ELSE NoError

\* the upper bound: the search also passes the entries equal to the new one
RECURSIVE InsertSearchUpper(_, _, _, _)
InsertSearchUpper(locksEntries, newLockEntry, low, high) ==
    IF low < high
    THEN LET mid == (low + high) \div 2
         IN  IF ~isLessThan(newLockEntry, locksEntries[mid + 1])
             THEN InsertSearchUpper(locksEntries, newLockEntry, mid + 1, high)
             ELSE InsertSearchUpper(locksEntries, newLockEntry, low, mid)
    ELSE low

RECURSIVE InsertSearch(_, _, _, _)
InsertSearch(locksEntries, newLockEntry, low, high) ==
    IF low < high
    THEN LET mid == (low + high) \div 2
         IN  IF isLessThan(locksEntries[mid + 1], newLockEntry)
             THEN InsertSearch(locksEntries, newLockEntry, mid + 1, high)
             ELSE InsertSearch(locksEntries, newLockEntry, low, mid)
    ELSE low

\* the search replaced by insertion at the front
findIndexToInsertFront(locksEntries, newLockEntry) == 0

findIndexToInsert(locksEntries, newLockEntry) ==
    InsertSearch(locksEntries, newLockEntry, 0, Len(locksEntries))

\* splice(index, 1, item): the entry at index is replaced by item
spliceReplacing(locksEntries, index, item) ==
    SubSeq(locksEntries, 1, index) \o <<item>>
        \o SubSeq(locksEntries, index + 2, Len(locksEntries))

\* Array.prototype.splice(index, 0, item)
splice(locksEntries, index, item) ==
    SubSeq(locksEntries, 1, index) \o <<item>>
        \o SubSeq(locksEntries, index + 1, Len(locksEntries))

\* push in place of the search and the splice: the new entry goes last
addLockEntryPush(locksEntries, newLockEntry) ==
    Append(locksEntries, newLockEntry)

addLockEntry(locksEntries, newLockEntry) ==
    splice(locksEntries, findIndexToInsert(locksEntries, newLockEntry), newLockEntry)

\* the search sent right only when the entry ends before t
RECURSIVE LockSearchStrict(_, _, _, _)
LockSearchStrict(locksEntries, t, low, high) ==
    IF low <= high
    THEN LET mid == (low + high) \div 2
             lockEntry == locksEntries[mid + 1]
         IN  IF lockEntry.startTime <= t /\ lockEntry.endTime > t
             THEN mid
             ELSE IF lockEntry.endTime < t
                  THEN LockSearchStrict(locksEntries, t, mid + 1, high)
                  ELSE LockSearchStrict(locksEntries, t, low, mid - 1)
    ELSE -1

RECURSIVE LockSearch(_, _, _, _)
LockSearch(locksEntries, t, low, high) ==
    IF low <= high
    THEN LET mid == (low + high) \div 2
             lockEntry == locksEntries[mid + 1]
         IN  IF lockEntry.startTime <= t /\ lockEntry.endTime > t
             THEN mid
             ELSE IF lockEntry.endTime <= t
                  THEN LockSearch(locksEntries, t, mid + 1, high)
                  ELSE LockSearch(locksEntries, t, low, mid - 1)
    ELSE -1

findLockIndexAtTime(locksEntries, t) ==
    LockSearch(locksEntries, t, 0, Len(locksEntries) - 1)

FREE == "FREE"
LOCKED == "LOCKED"

\* the two statuses of the conditional expression exchanged
getResourceStatusInverted(locksEntries, t) ==
    IF t < 0 \/ ~IsInteger(t)
    THEN Throw(ErrTime)
    ELSE Return(IF findLockIndexAtTime(locksEntries, t) = -1 THEN LOCKED ELSE FREE)

getResourceStatus(locksEntries, t) ==
    IF t < 0 \/ ~IsInteger(t)
    THEN Throw(ErrTime)
    ELSE Return(IF findLockIndexAtTime(locksEntries, t) = -1 THEN FREE ELSE LOCKED)

findCollisionAtTime(locksEntries, t) ==
    LET lockIndex == findLockIndexAtTime(locksEntries, t)
    IN  IF lockIndex = -1
        THEN Return(FALSE)
        ELSE LET lockEntry == locksEntries[lockIndex + 1]
                 hasPrev == lockIndex > 0
                 hasNext == lockIndex < Len(locksEntries) - 1
             IN  IF hasPrev /\ overlapsWith(locksEntries[lockIndex], lockEntry)
                 THEN Return(TRUE)
                 ELSE IF hasNext /\ overlapsWith(locksEntries[lockIndex + 2], lockEntry)
                      THEN Return(TRUE)
                      ELSE Return(FALSE)

\* the loop of findAllCollisions from index i on, with the pairs found so far
RECURSIVE CollisionScan(_, _, _, _)
CollisionScan(locksEntries, findAll, i, collisions) ==
    IF i < Len(locksEntries)
    THEN LET prevLock == locksEntries[i]
             currentLock == locksEntries[i + 1]
         IN  IF overlapsWith(prevLock, currentLock)
             THEN IF findAll
                  THEN CollisionScan(locksEntries, findAll, i + 1,
                                     Append(collisions, <<prevLock, currentLock>>))
                  ELSE << <<prevLock, currentLock>> >>
             ELSE CollisionScan(locksEntries, findAll, i + 1, collisions)
    ELSE collisions

\* the scan started one index too far
findAllCollisionsFromSecond(locksEntries, findAll) ==
    CollisionScan(locksEntries, findAll, 2, <<>>)

\* the scan with the findAll flag ignored
findAllCollisionsIgnoringFlag(locksEntries, findAll) ==
    CollisionScan(locksEntries, TRUE, 1, <<>>)

findAllCollisions(locksEntries, findAll) ==
    CollisionScan(locksEntries, findAll, 1, <<>>)

findFirstCollision(locksEntries) ==
    LET result == findAllCollisions(locksEntries, FALSE)
    IN  IF Len(result) # 0 THEN result[1] ELSE <<>>

----------------------------------------------------------------------------
(* ResourceLockManager: resources is the Map from resource id to the       *)
(* locksEntries of its Resource.                                           *)

validateResourceId(resourceId) ==
    IF trim(resourceId) = <<>> THEN ErrResourceId ELSE NoError

\* the check of the sign left out
validateTimeIntegerOnly(t) ==
    IF ~IsInteger(t) THEN ErrTime ELSE NoError

validateTime(t) ==
    IF t < 0 \/ ~IsInteger(t) THEN ErrTime ELSE NoError

\* the new Resource put into a new Map
getResourceReplacing(map, resourceId) ==
    IF resourceId \notin DOMAIN map
    THEN (resourceId :> <<>>)
    ELSE map

\* a new Resource set under the id whether or not the id is a key
getResourceAlwaysNew(map, resourceId) ==
    (resourceId :> <<>>) @@ map

\* the Map after getResource(resourceId)
getResource(map, resourceId) ==
    IF resourceId \notin DOMAIN map
    THEN (resourceId :> <<>>) @@ map
    ELSE map

\* a new Resource made on every call, the one in the Map ignored
addLockToResourceFresh(map, resourceId, lockEntry) ==
    IF ResourceError(resourceId) # NoError
    THEN [err |-> ResourceError(resourceId), map |-> map]
    ELSE [err |-> NoError,
          map |-> (resourceId :> addLockEntry(<<>>, lockEntry)) @@ map]

\* outcome of addLockToResource: the Error thrown (or NoError) and the Map
addLockToResource(map, resourceId, lockEntry) ==
    IF resourceId \in DOMAIN map
    THEN [err |-> NoError,
          map |-> [map EXCEPT ![resourceId] = addLockEntry(@, lockEntry)]]
    ELSE IF ResourceError(resourceId) # NoError
         THEN [err |-> ResourceError(resourceId), map |-> map]
         ELSE [err |-> NoError,
               map |-> (resourceId :> addLockEntry(<<>>, lockEntry)) @@ map]

RECURSIVE TotalEntries(_)
TotalEntries(map) ==
    IF DOMAIN map = {}
    THEN 0
    ELSE LET k == CHOOSE x \in DOMAIN map : TRUE
         IN  Len(map[k]) + TotalEntries([x \in DOMAIN map \ {k} |-> map[x]])

\* the comparison of the times made strict
validateRecordStrict(record) ==
    IF Len(record) # 3 THEN FALSE
    ELSE IF record[1].type # "string" \/ record[2].type # "number"
            \/ record[3].type # "number" THEN FALSE
    ELSE IF record[2].num > record[3].num THEN FALSE
    ELSE TRUE

validateRecord(record) ==
    IF Len(record) # 3 THEN FALSE
    ELSE IF record[1].type # "string" \/ record[2].type # "number"
            \/ record[3].type # "number" THEN FALSE
    ELSE IF record[2].num >= record[3].num THEN FALSE
    ELSE TRUE

\* outcome of processRecord: null, a LockEntry, or the Error of new LockEntry
processRecord(record) ==
    IF ~validateRecord(record)
    THEN Return(Null)
    ELSE LET startTime == record[2].num
             endTime == record[3].num
         IN  IF LockEntryError(startTime, endTime) # NoError
             THEN Throw(LockEntryError(startTime, endTime))
             ELSE Return(LockEntry(startTime, endTime))

\* fileData.forEach from index i on: the Map, the number of calls of
\* addLockToResource made, and the Error that ended the loop (or NoError)
RECURSIVE ForEachRecord(_, _, _, _)
ForEachRecord(map, items, i, calls) ==
    IF i > Len(items)
    THEN [map |-> map, calls |-> calls, err |-> NoError]
    ELSE LET record == items[i]
             lockEntry == processRecord(record)
         IN  IF lockEntry.err # NoError
             THEN [map |-> map, calls |-> calls, err |-> lockEntry.err]
             ELSE IF lockEntry.ret = Null
                  THEN ForEachRecord(map, items, i + 1, calls)
                  ELSE LET added == addLockToResource(map, record[1].str, lockEntry.ret)
                       IN  IF added.err # NoError
                           THEN [map |-> map, calls |-> calls + 1, err |-> added.err]
                           ELSE ForEachRecord(added.map, items, i + 1, calls + 1)

\* what readJsonFile returns for a file: the parsed value, or null when
\* readFileSync or JSON.parse throws
readJsonFile(file) ==
    IF file.kind = "json" THEN file.data ELSE Null

\* parseJson without the early return: forEach is called on null
parseJsonUnguarded(map, fileData) ==
    IF fileData = Null
    THEN [map |-> map, calls |-> 0, err |-> "TypeError"]
    ELSE ForEachRecord(map, fileData.items, 1, 0)

\* outcome of parseJson when readJsonFile returns fileData
parseJson(map, fileData) ==
    IF fileData = Null
    THEN [map |-> map, calls |-> 0, err |-> NoError]
    ELSE ForEachRecord(map, fileData.items, 1, 0)

----------------------------------------------------------------------------
(* Initial state: new Resource('resource1'), a second one, and             *)
(* new ResourceLockManager().                                              *)

Init ==
    /\ resource = <<>>
    /\ shuffled = <<>>
    /\ pending = EmptyBag
    /\ resources = <<>>
    /\ loaded = FALSE
    /\ last = [op |-> "constructor", on |-> "none", args |-> <<>>, out |-> Return(Null)]

----------------------------------------------------------------------------
(* Calls on a Resource used on its own                                     *)

\* resource.addLockEntry(new LockEntry(startTime, endTime))
AddLockEntry(startTime, endTime) ==
    LET e == LockEntryError(startTime, endTime)
    IN  /\ Len(resource) < MaxLocks
        /\ resource' = IF e # NoError
                       THEN resource
                       ELSE addLockEntry(resource, LockEntry(startTime, endTime))
        /\ last' = [op |-> "addLockEntry", args |-> <<startTime, endTime>>,
                    out |-> IF e # NoError THEN Throw(e) ELSE Return(Null),
                    before |-> resource]
        /\ UNCHANGED <<shuffled, pending, resources, loaded>>

GetResourceStatus(t) ==
    /\ last' = [op |-> "getResourceStatus", args |-> <<t>>,
                out |-> getResourceStatus(resource, t)]
    /\ UNCHANGED <<resource, shuffled, pending, resources, loaded>>

FindCollisionAtTime(t) ==
    /\ last' = [op |-> "findCollisionAtTime", args |-> <<t>>,
                out |-> findCollisionAtTime(resource, t)]
    /\ UNCHANGED <<resource, shuffled, pending, resources, loaded>>

FindAllCollisions(findAll) ==
    /\ last' = [op |-> "findAllCollisions", args |-> <<findAll>>,
                out |-> Return(findAllCollisions(resource, findAll))]
    /\ UNCHANGED <<resource, shuffled, pending, resources, loaded>>

FindFirstCollision ==
    /\ last' = [op |-> "findFirstCollision", args |-> <<>>,
                out |-> Return(findFirstCollision(resource))]
    /\ UNCHANGED <<resource, shuffled, pending, resources, loaded>>

ResourceNext ==
    \/ \E interval \in IntervalInputs : AddLockEntry(interval[1], interval[2])
    \/ \E t \in NumInputs : GetResourceStatus(t)
    \/ \E t \in NumInputs : FindCollisionAtTime(t)
    \/ \E findAll \in BOOLEAN : FindAllCollisions(findAll)
    \/ FindFirstCollision

ResourceSpec == Init /\ [][ResourceNext]_vars

----------------------------------------------------------------------------
(* Calls on LockEntry objects used on their own                            *)

\* new LockEntry(startTime, endTime)
NewLockEntry(startTime, endTime) ==
    LET e == LockEntryError(startTime, endTime)
    IN  /\ last' = [op |-> "LockEntry", args |-> <<startTime, endTime>>,
                    out |-> IF e # NoError THEN Throw(e)
                            ELSE Return(LockEntry(startTime, endTime))]
        /\ UNCHANGED <<resource, shuffled, pending, resources, loaded>>

\* this.overlapsWith(other), and other.overlapsWith(this) in swapped
OverlapsWith(this, other) ==
    /\ last' = [op |-> "overlapsWith", args |-> <<this, other>>,
                out |-> Return(overlapsWith(this, other)),
                swapped |-> Return(overlapsWith(other, this))]
    /\ UNCHANGED <<resource, shuffled, pending, resources, loaded>>

\* this.isLessThan(other)
IsLessThan(this, other) ==
    /\ last' = [op |-> "isLessThan", args |-> <<this, other>>,
                out |-> Return(isLessThan(this, other))]
    /\ UNCHANGED <<resource, shuffled, pending, resources, loaded>>

LockEntries == {LockEntry(p[1], p[2]) : p \in ValidIntervals}

EntryNext ==
    \/ \E startTime \in NumInputs, endTime \in NumInputs : NewLockEntry(startTime, endTime)
    \/ \E this \in LockEntries, other \in LockEntries : OverlapsWith(this, other)
    \/ \E this \in LockEntries, other \in LockEntries : IsLessThan(this, other)

EntrySpec == Init /\ [][EntryNext]_vars

----------------------------------------------------------------------------
(* Two Resources that receive the same locks in different orders: every    *)
(* lock added to resource is added to shuffled later, in any order.        *)

\* resource.addLockEntry(new LockEntry(startTime, endTime))
AddToResource(startTime, endTime) ==
    /\ Len(resource) < MaxLocks
    /\ resource' = addLockEntry(resource, LockEntry(startTime, endTime))
    /\ pending' = pending (+) SetToBag({LockEntry(startTime, endTime)})
    /\ last' = [op |-> "addLockEntry", on |-> "resource",
                args |-> <<startTime, endTime>>, out |-> Return(Null)]
    /\ UNCHANGED <<shuffled, resources, loaded>>

\* shuffled.addLockEntry(lockEntry) for a lock that resource already has;
\* after is the lock most recently added to resource
AddToShuffled(lockEntry) ==
    /\ BagIn(lockEntry, pending)
    /\ shuffled' = addLockEntry(shuffled, lockEntry)
    /\ pending' = pending (-) SetToBag({lockEntry})
    /\ last' = [op |-> "addLockEntry", on |-> "shuffled",
                args |-> <<lockEntry.startTime, lockEntry.endTime>>,
                out |-> Return(Null),
                after |-> IF last.on = "resource" THEN last.args ELSE last.after]
    /\ UNCHANGED <<resource, resources, loaded>>

PermNext ==
    \/ \E interval \in ValidIntervals : AddToResource(interval[1], interval[2])
    \/ \E lockEntry \in BagToSet(pending) : AddToShuffled(lockEntry)

PermSpec == Init /\ [][PermNext]_vars

----------------------------------------------------------------------------
(* Calls on a ResourceLockManager                                          *)

\* new LockEntry(startTime, endTime) followed by addLockToResource
AddLock(resourceId, startTime, endTime) ==
    LET e == LockEntryError(startTime, endTime)
        r == addLockToResource(resources, resourceId, LockEntry(startTime, endTime))
        out == IF e # NoError THEN Throw(e)
               ELSE IF r.err # NoError THEN Throw(r.err) ELSE Return(Null)
    IN  /\ resources' = IF e # NoError THEN resources ELSE r.map
        /\ last' = [op |-> "addLock", args |-> <<resourceId, startTime, endTime>>,
                    out |-> out, before |-> resources]
        /\ UNCHANGED <<resource, shuffled, pending, loaded>>

IsResourceLockedAtTime(resourceId, t) ==
    LET invalid == validateResourceId(resourceId) # NoError \/ validateTime(t) # NoError
        map == getResource(resources, resourceId)
        out == IF validateResourceId(resourceId) # NoError
               THEN Throw(validateResourceId(resourceId))
               ELSE IF validateTime(t) # NoError
                    THEN Throw(validateTime(t))
                    ELSE getResourceStatus(map[resourceId], t)
    IN  /\ resources' = IF invalid THEN resources ELSE map
        /\ last' = [op |-> "isResourceLockedAtTime", args |-> <<resourceId, t>>,
                    out |-> out, before |-> resources]
        /\ UNCHANGED <<resource, shuffled, pending, loaded>>

IsResourceCollisionAtTime(resourceId, t) ==
    LET invalid == validateResourceId(resourceId) # NoError \/ validateTime(t) # NoError
        map == getResource(resources, resourceId)
        out == IF validateResourceId(resourceId) # NoError
               THEN Throw(validateResourceId(resourceId))
               ELSE IF validateTime(t) # NoError
                    THEN Throw(validateTime(t))
                    ELSE findCollisionAtTime(map[resourceId], t)
    IN  /\ resources' = IF invalid THEN resources ELSE map
        /\ last' = [op |-> "isResourceCollisionAtTime", args |-> <<resourceId, t>>,
                    out |-> out, before |-> resources]
        /\ UNCHANGED <<resource, shuffled, pending, loaded>>

FindResourceFirstCollision(resourceId) ==
    LET invalid == validateResourceId(resourceId) # NoError
        map == getResource(resources, resourceId)
        out == IF invalid
               THEN Throw(validateResourceId(resourceId))
               ELSE Return(findFirstCollision(map[resourceId]))
    IN  /\ resources' = IF invalid THEN resources ELSE map
        /\ last' = [op |-> "findResourceFirstCollision", args |-> <<resourceId>>,
                    out |-> out, before |-> resources]
        /\ UNCHANGED <<resource, shuffled, pending, loaded>>

FindResourceAllCollisions(resourceId) ==
    LET invalid == validateResourceId(resourceId) # NoError
        map == getResource(resources, resourceId)
        out == IF invalid
               THEN Throw(validateResourceId(resourceId))
               ELSE Return(findAllCollisions(map[resourceId], TRUE))
    IN  /\ resources' = IF invalid THEN resources ELSE map
        /\ last' = [op |-> "findResourceAllCollisions", args |-> <<resourceId>>,
                    out |-> out, before |-> resources]
        /\ UNCHANGED <<resource, shuffled, pending, loaded>>

\* parseJson(jsonFilePath) with file at that path; args holds what
\* readJsonFile returned, before is the Map at the time of the call
ParseJson(file) ==
    LET fileData == readJsonFile(file)
        r == parseJson(resources, fileData)
    IN  /\ resources' = r.map
        /\ loaded' = TRUE
        /\ last' = [op |-> "parseJson", args |-> <<fileData>>,
                    out |-> IF r.err # NoError THEN Throw(r.err) ELSE Return(Null),
                    calls |-> r.calls, before |-> resources, file |-> file.kind]
        /\ UNCHANGED <<resource, shuffled, pending>>

Next ==
    \/ /\ TotalEntries(resources) < MaxManagerLocks
       /\ \E resourceId \in IdInputs, interval \in ManagerIntervals :
             AddLock(resourceId, interval[1], interval[2])
    \/ /\ TotalEntries(resources) < MaxManagerLocks
       /\ \E file \in ManagerFiles : ParseJson(file)
    \/ \E resourceId \in IdInputs, t \in NumInputs : IsResourceLockedAtTime(resourceId, t)
    \/ \E resourceId \in IdInputs, t \in NumInputs : IsResourceCollisionAtTime(resourceId, t)
    \/ \E resourceId \in IdInputs : FindResourceFirstCollision(resourceId)
    \/ \E resourceId \in IdInputs : FindResourceAllCollisions(resourceId)

Spec == Init /\ [][Next]_vars

\* a manager that receives some locks and then loads one file, as index.ts does
LoadNext ==
    \/ /\ ~loaded
       /\ TotalEntries(resources) < MaxPre
       /\ \E lock \in PreLocks : AddLock(lock[1], lock[2], lock[3])
    \/ /\ ~loaded
       /\ \E file \in FileStates : ParseJson(file)

LoadSpec == Init /\ [][LoadNext]_vars

----------------------------------------------------------------------------
(* Properties of a Resource *)

Covers(lockEntry, t) == lockEntry.startTime <= t /\ t < lockEntry.endTime

\* the indices of the entries that cover t
Covering(locksEntries, t) == {i \in 1..Len(locksEntries) : Covers(locksEntries[i], t)}

\* the indices i of the adjacent pairs (i, i + 1) that overlap
OverlappingAt(locksEntries) ==
    {i \in 1..(Len(locksEntries) - 1) :
        locksEntries[i].startTime < locksEntries[i + 1].endTime
        /\ locksEntries[i + 1].startTime < locksEntries[i].endTime}

\* b does not precede a in the (startTime, then endTime) order
NotAfter(a, b) ==
    \/ a.startTime < b.startTime
    \/ a.startTime = b.startTime /\ a.endTime <= b.endTime

\* C1: for every non-negative integer t, getResourceStatus(t) returns LOCKED
\* if and only if some entry of the resource satisfies startTime <= t < endTime,
\* and FREE otherwise.
C1_StatusIffCovered ==
    \A t \in Times :
        getResourceStatus(resource, t)
            = Return(IF Covering(resource, t) # {} THEN LOCKED ELSE FREE)

\* C2: for every non-negative integer t, if two or more entries cover t then
\* findCollisionAtTime(t) returns true.
C2_CollisionDetected ==
    \A t \in Times :
        Cardinality(Covering(resource, t)) >= 2
            => findCollisionAtTime(resource, t) = Return(TRUE)

\* C3: for every non-negative integer t, whenever findCollisionAtTime(t)
\* returns true, two distinct entries of the resource both cover t.
C3_CollisionSound ==
    \A t \in Times :
        findCollisionAtTime(resource, t) = Return(TRUE)
            => Cardinality(Covering(resource, t)) >= 2

\* C4: in every reachable state the locksEntries of the resource are sorted
\* non-decreasingly by (startTime, then endTime): no entry precedes the entry
\* just before it.
C4_EntriesSorted ==
    \A i \in 1..(Len(resource) - 1) : NotAfter(resource[i], resource[i + 1])

\* a lock was just added between two different locks of the resource
C4_Witness ==
    /\ last.op = "addLockEntry"
    /\ last.out.err = NoError
    /\ Len(resource) = 3
    /\ resource[2] = LockEntry(last.args[1], last.args[2])
    /\ resource[1] # resource[2]
    /\ resource[3] # resource[2]

\* C5: once two resources have received the same multiset of locks, in
\* whatever orders, their locksEntries are the same sequence of (startTime,
\* endTime) values, and getResourceStatus, findCollisionAtTime and
\* findAllCollisions give the same results on both.
C5_OrderIndependent ==
    pending = EmptyBag =>
        /\ shuffled = resource
        /\ \A t \in Times :
              /\ getResourceStatus(shuffled, t) = getResourceStatus(resource, t)
              /\ findCollisionAtTime(shuffled, t) = findCollisionAtTime(resource, t)
        /\ findAllCollisions(shuffled, TRUE) = findAllCollisions(resource, TRUE)

\* both resources hold the same three locks, and the lock added last to
\* shuffled is not the lock added last to resource
C5_Witness ==
    /\ pending = EmptyBag
    /\ Len(resource) = 3
    /\ Len(shuffled) = 3
    /\ last.op = "addLockEntry"
    /\ last.on = "shuffled"
    /\ last.args # last.after
    /\ resource[1] # resource[2]
    /\ resource[2] # resource[3]

\* C6: findAllCollisions(true) returns exactly the pairs (entries[i-1], entries[i])
\* that overlap, in increasing i, each ordered (earlier entry, later entry),
\* and nothing else; it is empty when no adjacent pair overlaps.
C6_AllAdjacentOverlaps ==
    LET all == findAllCollisions(resource, TRUE)
        idx == OverlappingAt(resource)
    IN  /\ Len(all) = Cardinality(idx)
        /\ \A i \in idx :
              all[Cardinality({j \in idx : j < i}) + 1] = <<resource[i], resource[i + 1]>>

\* findAllCollisions(true) was just called on a resource in which one adjacent
\* pair overlaps and another does not
C6_Witness ==
    /\ last.op = "findAllCollisions"
    /\ last.args = <<TRUE>>
    /\ Len(resource) = 3
    /\ Len(last.out.ret) = 1
    /\ last.out.ret[1] = <<resource[2], resource[3]>>

----------------------------------------------------------------------------
(* Properties of the bulk load *)

\* a record with a non-empty resource id and integers 0 <= start < end
WellFormed(record) ==
    /\ Len(record) = 3
    /\ record[1].type = "string" /\ record[1].str # <<>>
    /\ \E c \in 1..Len(record[1].str) : record[1].str[c] # " "
    /\ record[2].type = "number" /\ record[3].type = "number"
    /\ record[2].num % 2 = 0 /\ record[3].num % 2 = 0
    /\ 0 <= record[2].num /\ record[2].num < record[3].num

\* a 3-element record with a start or end that is not a number, or start >= end
Unordered(record) ==
    /\ Len(record) = 3
    /\ \/ record[2].type # "number"
       \/ record[3].type # "number"
       \/ record[2].num >= record[3].num

IntervalOf(record) == [startTime |-> record[2].num, endTime |-> record[3].num]

Count(locksEntries, lockEntry) ==
    Cardinality({i \in 1..Len(locksEntries) : locksEntries[i] = lockEntry})

EntriesOf(map, resourceId) ==
    IF resourceId \in DOMAIN map THEN map[resourceId] ELSE <<>>

\* after is before plus one entry for each well-formed record of items, in
\* the store of the id the record names, and nothing else
LoadedFrom(before, items, after) ==
    LET good == {i \in 1..Len(items) : WellFormed(items[i])}
        named(resourceId) == {i \in good : items[i][1].str = resourceId}
    IN  /\ DOMAIN after = DOMAIN before \cup {items[i][1].str : i \in good}
        /\ \A resourceId \in DOMAIN after :
              /\ Len(after[resourceId])
                    = Len(EntriesOf(before, resourceId)) + Cardinality(named(resourceId))
              /\ \A k \in 1..Len(after[resourceId]) :
                    LET lockEntry == after[resourceId][k]
                    IN  Count(after[resourceId], lockEntry)
                          = Count(EntriesOf(before, resourceId), lockEntry)
                            + Cardinality({i \in named(resourceId) :
                                              IntervalOf(items[i]) = lockEntry})

\* C8: for any file of 3-element records, parseJson throws nothing, skips each
\* record that fails LockEntry construction or resource id validation, and
\* inserts every well-formed record of the file, the later ones included.
C8_PerRecordRecovery ==
    (/\ last.op = "parseJson"
     /\ last.args[1].type = "array"
     /\ \A i \in 1..Len(last.args[1].items) : Len(last.args[1].items[i]) = 3)
    => /\ last.out.err = NoError
       /\ LoadedFrom(last.before, last.args[1].items, resources)

\* C9: loading N well-formed records into an empty manager makes exactly N
\* insertions; the keys of the Map are the distinct resource ids of the file,
\* each store holds exactly the intervals of the records naming it, and the
\* store sizes sum to N.
C9_WellFormedRoundTrip ==
    (/\ last.op = "parseJson"
     /\ last.args[1].type = "array"
     /\ last.before = <<>>
     /\ \A i \in 1..Len(last.args[1].items) : WellFormed(last.args[1].items[i]))
    => LET items == last.args[1].items
       IN  /\ last.out.err = NoError
           /\ last.calls = Len(items)
           /\ TotalEntries(resources) = Len(items)
           /\ DOMAIN resources = {items[i][1].str : i \in 1..Len(items)}
           /\ \A resourceId \in DOMAIN resources :
                 \A i \in 1..Len(items) :
                    Count(resources[resourceId], IntervalOf(items[i]))
                       = Cardinality({j \in 1..Len(items) :
                                         /\ items[j][1].str = resourceId
                                         /\ IntervalOf(items[j]) = IntervalOf(items[i])})

\* three well-formed records, two of them for the same resource, were just
\* loaded into an empty manager
C9_Witness ==
    /\ last.op = "parseJson"
    /\ last.args[1].type = "array"
    /\ last.before = <<>>
    /\ Len(last.args[1].items) = 3
    /\ \A i \in 1..3 : WellFormed(last.args[1].items[i])
    /\ DOMAIN resources = {R1, R2}
    /\ Len(resources[R1]) = 2
    /\ last.calls = 3

\* C10: when every record of the file is well-formed or has a non-numeric
\* start or end or start >= end, parseJson throws nothing, skips the latter
\* records without creating a store for their id, and makes one insertion
\* for each of the remaining records.
C10_UnorderedSkipped ==
    (/\ last.op = "parseJson"
     /\ last.args[1].type = "array"
     /\ \A i \in 1..Len(last.args[1].items) :
           WellFormed(last.args[1].items[i]) \/ Unordered(last.args[1].items[i]))
    => LET items == last.args[1].items
       IN  /\ last.out.err = NoError
           /\ last.calls = Cardinality({i \in 1..Len(items) : WellFormed(items[i])})
           /\ TotalEntries(resources) = TotalEntries(last.before) + last.calls
           /\ LoadedFrom(last.before, items, resources)

\* the file [["R1",1,2],["R2","x",3],["R1",2,1]] was just loaded into an empty
\* manager and only its first record was inserted
C10_Witness ==
    /\ last.op = "parseJson"
    /\ last.before = <<>>
    /\ last.args[1] = JsArray(<<Record(R1, Num(1), Num(2)),
                                <<JsString(R2), NotANumber, JsNumber(Num(3))>>,
                                Record(R1, Num(2), Num(1))>>)
    /\ last.calls = 1
    /\ resources = (R1 :> <<LockEntry(Num(1), Num(2))>>)

----------------------------------------------------------------------------
(* Properties of a load from a file that cannot be read *)

\* C11: when readJsonFile returns null, because the file is missing or is
\* not JSON text, parseJson makes no call of addLockToResource, creates no
\* Resource, leaves the Map exactly as it was and throws nothing.
C11_UnreadableFileNoChange ==
    (last.op = "parseJson" /\ last.args[1].type = "null") =>
        /\ last.calls = 0
        /\ DOMAIN resources = DOMAIN last.before
        /\ resources = last.before
        /\ last.out = Return(Null)

\* a manager that holds a lock has been given a file that is not JSON text
C11_Witness ==
    /\ last.op = "parseJson"
    /\ last.file = "malformed"
    /\ TotalEntries(last.before) > 0
    /\ resources = last.before

----------------------------------------------------------------------------
(* Properties of the calls on a ResourceLockManager *)

Queries ==
    {"isResourceLockedAtTime", "isResourceCollisionAtTime",
     "findResourceFirstCollision", "findResourceAllCollisions"}

\* id has a character that is not a space
NamesResource(id) == \E c \in 1..Len(id) : id[c] # " "

\* C12: a query that names, with a non-blank id, a resource that is not a key
\* of the Map, at a non-negative integer time if it takes one, throws nothing
\* and answers as for a resource without locks: FREE, no collision, no first
\* colliding pair, no colliding pairs.
C12_UnknownResourceIsFree ==
    (/\ last.op \in Queries
     /\ NamesResource(last.args[1])
     /\ last.args[1] \notin DOMAIN last.before
     /\ Len(last.args) = 2 => (last.args[2] >= 0 /\ last.args[2] % 2 = 0)) =>
        /\ last.op = "isResourceLockedAtTime" => last.out = Return(FREE)
        /\ last.op = "isResourceCollisionAtTime" => last.out = Return(FALSE)
        /\ last.op = "findResourceFirstCollision" => last.out = Return(<<>>)
        /\ last.op = "findResourceAllCollisions" => last.out = Return(<<>>)

\* R2 is asked about for the first time, at a time when R1 is locked
C12_Witness ==
    /\ last.op = "isResourceLockedAtTime"
    /\ last.args = <<R2, Num(1)>>
    /\ DOMAIN last.before = {R1}
    /\ \E i \in 1..Len(last.before[R1]) : Covers(last.before[R1][i], Num(1))
    /\ last.out = Return(FREE)

\* C13: each of the four queries throws the resource id Error when the id is
\* empty or only spaces, and isResourceLockedAtTime and
\* isResourceCollisionAtTime throw the time Error when the id is valid and t
\* is negative; in both cases the Map is as it was before the call, no
\* Resource added and no entry changed.
C13_InvalidQueryRejected ==
    last.op \in Queries =>
        /\ ~NamesResource(last.args[1]) =>
              /\ last.out = Throw(ErrResourceId)
              /\ resources = last.before
        /\ (NamesResource(last.args[1]) /\ Len(last.args) = 2 /\ last.args[2] < 0) =>
              /\ last.out = Throw(ErrTime)
              /\ resources = last.before

\* a collision query at time -1 on a resource that is not yet a key, made on
\* a manager that holds a lock
C13_Witness ==
    /\ last.op = "isResourceCollisionAtTime"
    /\ last.args = <<R2, Num(-1)>>
    /\ DOMAIN last.before = {R1}
    /\ last.before[R1] # <<>>
    /\ last.out = Throw(ErrTime)

\* C14: addLockToResource with a LockEntry and an id that is empty or only
\* spaces throws the resource id Error and leaves the Map as it was; with any
\* other id it throws nothing, the id is a key afterwards, the store of that
\* id gains exactly the LockEntry, and every other key keeps its store.
C14_AddLockRouting ==
    (last.op = "addLock" /\ LockEntryError(last.args[2], last.args[3]) = NoError) =>
        LET resourceId == last.args[1]
            lockEntry == [startTime |-> last.args[2], endTime |-> last.args[3]]
        IN  /\ ~NamesResource(resourceId) =>
                  /\ last.out = Throw(ErrResourceId)
                  /\ resources = last.before
            /\ NamesResource(resourceId) =>
                  /\ last.out = Return(Null)
                  /\ DOMAIN resources = DOMAIN last.before \cup {resourceId}
                  /\ Len(resources[resourceId])
                        = Len(EntriesOf(last.before, resourceId)) + 1
                  /\ \A i \in 1..Len(resources[resourceId]) :
                        LET x == resources[resourceId][i]
                        IN  Count(resources[resourceId], x)
                              = Count(EntriesOf(last.before, resourceId), x)
                                  + (IF x = lockEntry THEN 1 ELSE 0)
                  /\ Count(resources[resourceId], lockEntry) >= 1
                  /\ \A other \in DOMAIN last.before \ {resourceId} :
                        resources[other] = last.before[other]

\* a lock is added to a new resource R2 while R1 holds a lock
C14_Witness ==
    /\ last.op = "addLock"
    /\ last.args[1] = R2
    /\ last.out = Return(Null)
    /\ DOMAIN last.before = {R1}
    /\ Len(last.before[R1]) = 1
    /\ Len(resources[R2]) = 1

\* C15: new LockEntry(startTime, endTime) with integer arguments throws
\* exactly when startTime < 0, endTime < 0 or startTime >= endTime, and then
\* nothing is added to the Map; and every entry of every Resource of the Map,
\* added by addLockToResource or by parseJson, has 0 <= startTime < endTime.
C15_IntervalsValid ==
    /\ (last.op = "addLock" /\ last.args[2] % 2 = 0 /\ last.args[3] % 2 = 0) =>
          LET startTime == last.args[2]
              endTime == last.args[3]
              thrown == last.out.err \in {ErrNegative, ErrOrder, ErrIntegers}
          IN  /\ thrown <=> (startTime < 0 \/ endTime < 0 \/ startTime >= endTime)
              /\ thrown => resources = last.before
    /\ \A resourceId \in DOMAIN resources :
          \A i \in 1..Len(resources[resourceId]) :
              /\ 0 <= resources[resourceId][i].startTime
              /\ resources[resourceId][i].startTime < resources[resourceId][i].endTime

\* new LockEntry(-1, 1) has thrown on a manager that holds a lock loaded
\* from a file
C15_Witness ==
    /\ last.op = "addLock"
    /\ last.args[2] = Num(-1) /\ last.args[3] = Num(1)
    /\ last.out = Throw(ErrNegative)
    /\ loaded
    /\ TotalEntries(resources) = 1

\* the Map holds a Resource, with an array of lock entries, under every key;
\* the id of a call of addLockToResource or of a query that returned is a key,
\* and a query that returned for an id that was not a key left an empty
\* Resource under it
KeysAfterCall ==
    /\ \A resourceId \in DOMAIN resources :
          resources[resourceId] \in Seq([startTime : Int, endTime : Int])
    /\ (last.op \in Queries \cup {"addLock"} /\ last.out.err = NoError) =>
          /\ last.args[1] \in DOMAIN resources
          /\ (last.op \in Queries /\ last.args[1] \notin DOMAIN last.before) =>
                resources[last.args[1]] = <<>>

\* C16: no call on the manager (addLockToResource, parseJson, the four
\* queries) removes a key of the Map, every key maps to a Resource, and after
\* a call of addLockToResource or of a query that returned, the id it named is
\* a key (for a query on an absent id, of an empty Resource).
C16_KeysOnlyGrow ==
    /\ []KeysAfterCall
    /\ [][DOMAIN resources \subseteq DOMAIN resources']_vars

\* a query has made R2 a key of a manager that already had R1 with a lock
C16_Witness ==
    /\ last.op = "findResourceAllCollisions"
    /\ last.args = <<R2>>
    /\ DOMAIN last.before = {R1}
    /\ DOMAIN resources = {R1, R2}
    /\ resources[R1] # <<>>
    /\ resources[R2] = <<>>

----------------------------------------------------------------------------
(* Properties of LockEntry *)

\* C17: for any two lock entries A and B, A.overlapsWith(B) and
\* B.overlapsWith(A) return the same value.
C17_OverlapSymmetric ==
    last.op = "overlapsWith" => last.out = last.swapped

\* an entry that contains another one overlaps it, both ways
C17_Witness ==
    /\ last.op = "overlapsWith"
    /\ last.args = <<LockEntry(Num(0), Num(3)), LockEntry(Num(1), Num(2))>>
    /\ last.out = Return(TRUE)
    /\ last.swapped = Return(TRUE)

\* C18: when A ends where B starts, A.overlapsWith(B) and B.overlapsWith(A)
\* are both false; and A.overlapsWith(B) is true exactly when some integer t
\* has A.startTime <= t < A.endTime and B.startTime <= t < B.endTime.
C18_OverlapHalfOpen ==
    last.op = "overlapsWith" =>
        LET A == last.args[1]
            B == last.args[2]
        IN  /\ A.endTime = B.startTime =>
                  (last.out = Return(FALSE) /\ last.swapped = Return(FALSE))
            /\ last.out.ret <=> (\E t \in Times : Covers(A, t) /\ Covers(B, t))

\* two entries that touch at time 1
C18_Witness ==
    /\ last.op = "overlapsWith"
    /\ last.args = <<LockEntry(Num(0), Num(1)), LockEntry(Num(1), Num(2))>>
    /\ last.out = Return(FALSE)

----------------------------------------------------------------------------
(* Properties of the calls on a Resource *)

\* C19: for every negative t, findCollisionAtTime(t) on a Resource throws the
\* time Error as getResourceStatus(t) does: both throw, neither returns.
C19_CollisionQueryRejectsNegativeTime ==
    (last.op \in {"getResourceStatus", "findCollisionAtTime"} /\ last.args[1] < 0) =>
        last.out = Throw(ErrTime)

\* C20: addLockEntry(x) always adds: afterwards the array is one longer, x
\* occurs once more than before and every other (startTime, endTime) occurs as
\* often as before, also when x overlaps or equals entries already there.
C20_InsertAddsOne ==
    (last.op = "addLockEntry" /\ last.out.err = NoError) =>
        LET x == [startTime |-> last.args[1], endTime |-> last.args[2]]
        IN  /\ Len(resource) = Len(last.before) + 1
            /\ Count(resource, x) = Count(last.before, x) + 1
            /\ \A i \in 1..Len(last.before) :
                  last.before[i] # x =>
                      Count(resource, last.before[i]) = Count(last.before, last.before[i])
            /\ \A i \in 1..Len(resource) :
                  resource[i] # x => Count(last.before, resource[i]) >= 1

\* an entry equal to one already there, which overlaps another one, is added
C20_Witness ==
    /\ last.op = "addLockEntry"
    /\ last.args = <<Num(1), Num(2)>>
    /\ last.before = <<LockEntry(Num(0), Num(3)), LockEntry(Num(1), Num(2))>>
    /\ Len(resource) = 3
    /\ Count(resource, LockEntry(Num(1), Num(2))) = 2

----------------------------------------------------------------------------
(* Properties of the searches of a Resource *)

\* some two entries at different indices, adjacent or not, overlap
AnyOverlap(locksEntries) ==
    \E i \in 1..Len(locksEntries), j \in 1..Len(locksEntries) :
        /\ i # j
        /\ locksEntries[i].startTime < locksEntries[j].endTime
        /\ locksEntries[j].startTime < locksEntries[i].endTime

\* C21: findAllCollisions() returns the empty array exactly when no two
\* entries of the resource overlap, adjacent in the array or not, and
\* findFirstCollision() returns a pair whenever some two entries overlap.
C21_CollisionExistenceComplete ==
    /\ (last.op = "findAllCollisions" /\ last.args[1]) =>
          (last.out.ret = <<>> <=> ~AnyOverlap(resource))
    /\ (last.op = "findFirstCollision" /\ AnyOverlap(resource)) =>
          Len(last.out.ret) = 2

\* findFirstCollision on (0,3), (1,2), (2,3): the first and the last entry
\* overlap without being adjacent
C21_Witness ==
    /\ last.op = "findFirstCollision"
    /\ resource = <<LockEntry(Num(0), Num(3)), LockEntry(Num(1), Num(2)),
                    LockEntry(Num(2), Num(3))>>
    /\ last.out = Return(<<LockEntry(Num(0), Num(3)), LockEntry(Num(1), Num(2))>>)

\* C22: in a resource in which no two entries overlap (entries may touch),
\* for every non-negative integer t getResourceStatus(t) returns LOCKED
\* exactly when some entry has startTime <= t < endTime, findCollisionAtTime(t)
\* returns false, and findAllCollisions() returns the empty array.
C22_ExactWithoutOverlaps ==
    ~AnyOverlap(resource) =>
        /\ (last.op = "getResourceStatus" /\ last.args[1] \in Times) =>
              last.out = Return(IF Covering(resource, last.args[1]) # {}
                                THEN LOCKED ELSE FREE)
        /\ (last.op = "findCollisionAtTime" /\ last.args[1] \in Times) =>
              last.out = Return(FALSE)
        /\ last.op = "findAllCollisions" => last.out = Return(<<>>)

\* getResourceStatus(1) on the touching entries (0,1), (1,2), (2,3)
C22_Witness ==
    /\ last.op = "getResourceStatus"
    /\ last.args = <<Num(1)>>
    /\ resource = <<LockEntry(Num(0), Num(1)), LockEntry(Num(1), Num(2)),
                    LockEntry(Num(2), Num(3))>>
    /\ last.out = Return(LOCKED)

\* C23: if getResourceStatus(t) returns LOCKED then some entry of the resource
\* has startTime <= t < endTime; and if findCollisionAtTime(t) returns true
\* then getResourceStatus(t), for the same t, returns LOCKED and
\* findAllCollisions() is not empty.
C23_PointQueriesSound ==
    /\ (last.op = "getResourceStatus" /\ last.out = Return(LOCKED)) =>
          Covering(resource, last.args[1]) # {}
    /\ (last.op = "findCollisionAtTime" /\ last.out = Return(TRUE)) =>
          /\ getResourceStatus(resource, last.args[1]) = Return(LOCKED)
          /\ findAllCollisions(resource, TRUE) # <<>>

\* a comes before b in the order by startTime, then endTime
Precedes(a, b) ==
    \/ a.startTime < b.startTime
    \/ a.startTime = b.startTime /\ a.endTime < b.endTime

\* C24: addLockEntry(x) inserts x at the index findIndexToInsert returns,
\* which is in 0..length, has only entries that precede x before it and, if
\* it is not the length, an entry that does not precede x at it; the entries
\* that were there keep their relative order around x.
C24_InsertAtLowerBound ==
    (last.op = "addLockEntry" /\ last.out.err = NoError) =>
        LET x == [startTime |-> last.args[1], endTime |-> last.args[2]]
            old == last.before
            index == findIndexToInsert(old, x)
        IN  /\ index \in 0..Len(old)
            /\ \A i \in 1..index : Precedes(old[i], x)
            /\ index < Len(old) => ~Precedes(old[index + 1], x)
            /\ Len(resource) = Len(old) + 1
            /\ resource[index + 1] = x
            /\ \A i \in 1..Len(old) :
                  resource[IF i <= index THEN i ELSE i + 1] = old[i]

\* (1,2) is added to (0,1), (1,2): it goes at index 1, before its equal
C24_Witness ==
    /\ last.op = "addLockEntry"
    /\ last.args = <<Num(1), Num(2)>>
    /\ last.before = <<LockEntry(Num(0), Num(1)), LockEntry(Num(1), Num(2))>>
    /\ findIndexToInsert(last.before, LockEntry(Num(1), Num(2))) = 1
    /\ Len(resource) = 3

\* C25: a query leaves the entries of every Resource of the Map as they were,
\* and can add nothing but an empty Resource under the id it names; a call of
\* addLockToResource(r, x) leaves the entries of every Resource other than
\* that of r as they were and adds no key other than r.
C25_Frame ==
    (last.op \in Queries \cup {"addLock"}) =>
        LET resourceId == last.args[1]
        IN  /\ DOMAIN resources \ DOMAIN last.before \subseteq {resourceId}
            /\ \A other \in DOMAIN last.before \ {resourceId} :
                  other \in DOMAIN resources /\ resources[other] = last.before[other]
            /\ last.op \in Queries =>
                  /\ resourceId \in DOMAIN last.before =>
                        resources[resourceId] = last.before[resourceId]
                  /\ resourceId \in DOMAIN resources \ DOMAIN last.before =>
                        resources[resourceId] = <<>>

\* a collision query on R1, which holds a lock, while R2 holds one too
C25_Witness ==
    /\ last.op = "isResourceCollisionAtTime"
    /\ last.args = <<R1, Num(1)>>
    /\ DOMAIN last.before = {R1, R2}
    /\ last.before[R1] # <<>>
    /\ last.before[R2] # <<>>
    /\ resources = last.before

============================================================================
